---- MODULE Spec2Model ----
(***************************************************************************)
(* Model of the finscrapper storage services: the CSV merge-and-store      *)
(* engine of SimpleFileStorageService (Spec, SpecOrder), the append-only   *)
(* store of GoogleSheetsService (SpecOrder), the retry / fallback path of  *)
(* S3StorageService (SpecS3), the simulated upload of                      *)
(* MegaCSVStorageService (SpecMega), the delete-then-upload store of       *)
(* MegaSDKStorageService and MegaManualUploadService (SpecSdk), the        *)
(* scrape_all_sources command and the handle of the commands it runs       *)
(* (SpecRun), the page loop of the scrapers (SpecFetch), the date filter   *)
(* of the dashboard (SpecFilter), the constructors of the storage          *)
(* services (SpecAuth), the CSV export of the dashboard (SpecExport), the  *)
(* store of GoogleSheetsService under a clock (SpecSheets) and two runs    *)
(* storing to the same source without a lock (SpecRace).                   *)
(*                                                                         *)
(* A CSV file is modelled as its text: a sequence of rows whose cells are  *)
(* strings.  pandas.read_csv turns an empty cell into NaN and to_csv turns *)
(* NaN back into an empty cell; both conversions are modelled.             *)
(***************************************************************************)
EXTENDS Integers, Sequences, FiniteSets, TLC

\* ------------------------------------------------------------------ bounds
MaxBatch == 2
MaxClock == 1

\* ------------------------------------------------------------ input domain
Urls == {"u1", "u2"}
Titles == {"", "t1"}

\* A scraped article as the callers hand it to store_news_data.
Article == [url : Urls, title : Titles]

RECURSIVE SeqsUpTo(_, _)
SeqsUpTo(S, n) ==
    IF n = 0 THEN {<<>>}
    ELSE LET shorter == SeqsUpTo(S, n - 1)
         IN  shorter \cup {Append(s, x) : s \in {t \in shorter : Len(t) = n - 1}, x \in S}

Batches == SeqsUpTo(Article, MaxBatch)

\* ---------------------------------------------------------- pandas helpers
NaN == "NaN"

\* pandas.read_csv: an empty cell (and the text NaN) is read as NaN.
ReadCell(c) == IF c \in {"", "NaN"} THEN NaN ELSE c

\* DataFrame.to_csv: NaN is written as an empty cell.
WriteCell(v) == IF v = NaN THEN "" ELSE v

ReadRow(r) == [url |-> ReadCell(r.url), title |-> ReadCell(r.title), scraped_at |-> r.scraped_at]
WriteRow(r) == [url |-> WriteCell(r.url), title |-> WriteCell(r.title), scraped_at |-> r.scraped_at]

read_csv(rows) == [i \in 1..Len(rows) |-> ReadRow(rows[i])]
to_csv(df) == [i \in 1..Len(df) |-> WriteRow(df[i])]

\* df = pd.DataFrame(data); df['scraped_at'] = now
DataFrame(data, now) ==
    [i \in 1..Len(data) |-> [url |-> data[i].url, title |-> data[i].title, scraped_at |-> now]]

\* pd.concat([existing_df, df], ignore_index=True)
concat(a, b) == a \o b

RECURSIVE SelectIdx(_, _, _)
SelectIdx(s, keep, i) ==
    IF i > Len(s) THEN <<>>
    ELSE (IF i \in keep THEN <<s[i]>> ELSE <<>>) \o SelectIdx(s, keep, i + 1)

\* combined_df.drop_duplicates(subset=['url'], keep='last'): a row stays iff no
\* later row has the same url; the surviving rows keep their relative order.
drop_duplicates(df) ==
    SelectIdx(df, {i \in 1..Len(df) : \A j \in (i + 1)..Len(df) : df[j].url # df[i].url}, 1)

\* ---------------------------------------------------------- stored files
Absent == [st |-> "absent", rows |-> <<>>]
Corrupt == [st |-> "corrupt", rows |-> <<>>]
CsvFile(rows) == [st |-> "ok", rows |-> rows]

\* The merge of every CSV-backed store_news_data: existing_df is None when
\* nothing could be read, and then the batch is taken as it is.
MergeCsv_Mutant(existing, df) == df
MergeCsv(existing, df) ==
    IF existing.found
    THEN drop_duplicates(concat(existing.df, df))
    ELSE df

\* SimpleFileStorageService: os.path.exists + pd.read_csv under try/except;
\* an unreadable file leaves existing_df = None.
LoadExistingLocal(f) ==
    IF f.st = "ok" THEN [found |-> TRUE, df |-> read_csv(f.rows)]
    ELSE [found |-> FALSE, df |-> <<>>]

\* The file SimpleFileStorageService.store_news_data writes for a non-empty batch.
CombinedLocal(f, data, now) == to_csv(MergeCsv(LoadExistingLocal(f), DataFrame(data, now)))

\* The file a call of SimpleFileStorageService.store_news_data that returns
\* leaves behind: an empty batch returns before anything is read or written.
StoreResultLocal(f, data, now) ==
    IF data = <<>> THEN f ELSE CsvFile(CombinedLocal(f, data, now))

\* ---------------------------------------------------------- Google Sheets
\* A sheet: whether it exists, and its rows below the header row.
NoSheet == [exists |-> FALSE, rows |-> <<>>]

\* str.strip() on the urls of the model: only " u1" carries white space.
strip(u) == IF u = " u1" THEN "u1" ELSE u

\* existing_urls: the stripped non-empty urls of the rows below the header.
ExistingUrls_Mutant(sheet) == {}
ExistingUrls(sheet) ==
    {strip(sheet.rows[i].url) : i \in {j \in 1..Len(sheet.rows) : sheet.rows[j].url # ""}}

\* The loop over news_data: a row is built for an item whose stripped url is
\* non-empty and neither in the sheet nor taken earlier in the batch.
RECURSIVE NewRows(_, _, _, _)
NewRows(news_data, i, seen, now) ==
    IF i > Len(news_data) THEN <<>>
    ELSE LET url == strip(news_data[i].url)
         IN  IF url # "" /\ url \notin seen
             THEN <<[title |-> news_data[i].title, url |-> url, scraped_at |-> now]>>
                    \o NewRows(news_data, i + 1, seen \cup {url}, now)
             ELSE NewRows(news_data, i + 1, seen, now)

\* GoogleSheetsService.store_news_data: the sheet after the call (created with
\* its header row when it could not be read) and the value returned.
SheetsStore(sheet, news_data, now) ==
    LET new_rows == NewRows(news_data, 1, ExistingUrls(sheet), now)
    IN  [sheet |-> [exists |-> TRUE, rows |-> sheet.rows \o new_rows],
         ret |-> Len(new_rows)]

VARIABLES
    file,       \* .data/csv_storage/<source>_news_data.csv
    clock,      \* wall clock, in seconds
    ret,        \* value returned by the last store_news_data call
    outcome,    \* "none" | "returned" | "raised": how the last call ended
    lastData,   \* the batch of the last call
    laneA,      \* a local CSV file that receives batch b1, then b2
    laneB,      \* a local CSV file that receives batch b2, then b1
    sheetA,     \* a sheet that receives batch b1, then b2
    sheetB,     \* a sheet that receives batch b2, then b1
    b1, b2,     \* the two batches
    stored,     \* how many batches the lanes have stored
    s3Latest,   \* the S3 object <prefix>/<env>/latest/<source>/<source>_news_data.csv
    s3Pre,      \* the latest object as the S3 call in progress (or the last one) found it
    s3History,  \* the S3 object last written under <prefix>/<env>/history/<source>/
    s3Backup,   \* the file last written under .data/s3_backup/
    pc,         \* where the S3 call in progress stands
    existing,   \* existing_df of the S3 call: what _download_csv_from_s3 returned
    storeAttempt,   \* attempt of the retry wrapper around store_news_data
    ioAttempt,      \* attempt of the retry wrapper around the download / upload in progress
    lastErr,    \* kind of the last exception raised in the S3 call
    failedAt,   \* the operation whose exception last reached the except clause
    latestPuts, \* put_object requests for the latest key made by the S3 call
    putsOk,     \* whether one of them succeeded
    onlyTransient,  \* whether every exception of the S3 call was a transient one
    fallbacks,  \* calls of _fallback_to_local_storage made by the S3 call
    fallbackWrote,  \* whether the last of them wrote its file
    megaBackup, \* .mega_backup/<source>_news_data.csv
    uploaded,   \* whether _upload_csv_to_mega returned True in the last MegaCSV call
    sdkNodes,   \* the MEGA nodes named <source>_news_data.csv in the upload folder
    sdkHistory, \* the timestamped file last uploaded to MEGA
    sdkPc,      \* where the MEGA SDK call in progress stands
    sdkExisting,    \* existing_df of the MEGA SDK call
    sdkAttempt, \* attempt of the tenacity wrapper around store_news_data
    sdkPre,     \* the nodes as they were when the MEGA SDK call began
    sdkReadFailed,  \* whether _download_existing_csv gave None although a node was there
    manualFiles,    \* mega_upload_ready/: the upload-ready file and the last timestamped file
    runPc,      \* where scrape_all_sources and the command it runs stand
    srcIdx,     \* index into scrapers of the command being run
    job,        \* the ScrapingJob object of the command being run
    jobRows,    \* the ScrapingJob rows of the database, per scraper
    total_success, total_failed,    \* the counters of scrape_all_sources
    successMsgs,    \* scrapers reported '<source> completed successfully'
    failedMsgs, \* scrapers reported '<source> failed'
    ran,        \* the scrapers call_command was called for, in order
    handleEnd,  \* per scraper, how its handle ended: "none" | "returned" | "raised"
    scraped,    \* per scraper, the count its scrape returned (-1: none)
    lastExc,    \* the exception caught by the except clause of the handle being run
    verdict,    \* the closing line of scrape_all_sources
    fetchPc,    \* where the handle of a scraper stands: "idle" | "loop" (in a page loop) |
                \* "done" (a page loop is over) | "ended"
    fSource,    \* index into scrapers of the scraper whose handle runs
    category,   \* index of the category whose page loop runs or ran last
    broken,     \* the categories whose page loop was left with break
    total_scraped,  \* the sum the handle keeps of the counts its page loops returned
    articles_scraped,   \* job.articles_scraped as the handle has set it (-1: not set)
    max_pages,  \* the max_pages option
    page,       \* the loop variable
    requested,  \* the pages requested, in order
    responses,  \* per page, the kind of the response it got ("none": not requested)
    gathered,   \* the posts handed to save_article, in order
    scraped_count,  \* the counter the page loop returns
    articleDb,  \* the Article rows, per url
    filterPc,   \* where the filter loop of the dashboard stands: "idle" | "loop" | "done"
    date_from, date_to, \* the GET parameters of the request
    all_articles,   \* the rows of the stored CSV files the loop has taken so far
    filtered_articles,  \* the rows whose record the loop has appended
    environ,    \* os.environ: the value of each variable the constructors look up
    service,    \* the storage service class last constructed
    authPc,     \* "idle" | "authenticating" | "constructed" | "raised"
    attempt_number, \* calls of the authentication method made by the constructor
    authExc,    \* the exception the constructor raised
    credentialed,   \* whether the constructed object holds credentials
    exportPc,    \* where download_articles stands: "idle" | "writing" | "returned" | "redirected"
    exportStored,    \* the rows of the latest CSV file the export reads
    exportArticles,    \* filtered_articles of download_articles
    response,   \* the HttpResponse of download_articles: header row and rows written
    gsheet,    \* the sheet of the source in the spreadsheet: whether it exists, its rows below the header
    gsClock,    \* datetime.now() of GoogleSheetsService.store_news_data
    gsData,    \* news_data of the last GoogleSheetsService.store_news_data call
    gsRet,    \* the value that call returned
    gsOutcome,   \* "none" | "returned" | "raised": how that call ended
    raceFile,    \* the dataset of the source two runs store to
    racePc,    \* run -> idle | merged | done
    raceExisting,    \* run -> the existing_df it has loaded
    raceBatch,    \* run -> the batch it stores
    overlapped    \* a run loaded the dataset between the other's load and write

localVars == <<file, clock, ret, outcome, lastData>>
orderVars == <<laneA, laneB, sheetA, sheetB, b1, b2, stored>>
s3Vars == <<s3Latest, s3Pre, s3History, s3Backup, pc, existing, storeAttempt, ioAttempt, lastErr,
            failedAt, latestPuts, putsOk, onlyTransient, fallbacks, fallbackWrote>>
megaVars == <<megaBackup, uploaded>>
sdkVars == <<sdkNodes, sdkHistory, sdkPc, sdkExisting, sdkAttempt, sdkPre, sdkReadFailed,
             manualFiles>>
runVars == <<runPc, srcIdx, job, jobRows, total_success, total_failed, successMsgs, failedMsgs,
             ran, handleEnd, scraped, lastExc, verdict>>
fetchVars == <<fetchPc, fSource, category, broken, total_scraped, articles_scraped, max_pages, page,
               requested, responses, gathered, scraped_count, articleDb>>
filterVars == <<filterPc, date_from, date_to, all_articles, filtered_articles>>
authVars == <<environ, service, authPc, attempt_number, authExc, credentialed>>
exportVars == <<exportPc, exportStored, exportArticles, response>>
sheetVars == <<gsheet, gsClock, gsData, gsRet, gsOutcome>>
raceVars == <<raceFile, racePc, raceExisting, raceBatch, overlapped>>
laterVars == <<sdkVars, runVars, fetchVars, filterVars, authVars, exportVars, sheetVars, raceVars>>
\* The variables the MEGA SDK service leaves alone, and those the commands do.
exceptSdk == <<orderVars, s3Vars, megaVars, runVars, fetchVars, filterVars, authVars, exportVars, sheetVars, raceVars>>
exceptRun == <<localVars, orderVars, s3Vars, megaVars, sdkVars, fetchVars, filterVars, authVars, exportVars, sheetVars, raceVars>>
exceptFetch == <<localVars, orderVars, s3Vars, megaVars, sdkVars, runVars, filterVars, authVars, exportVars, sheetVars, raceVars>>
exceptFilter == <<localVars, orderVars, s3Vars, megaVars, sdkVars, runVars, fetchVars, authVars, exportVars, sheetVars, raceVars>>
exceptAuth == <<localVars, orderVars, s3Vars, megaVars, sdkVars, runVars, fetchVars, filterVars, exportVars, sheetVars, raceVars>>
exceptExport == <<localVars, orderVars, s3Vars, megaVars, sdkVars, runVars, fetchVars, filterVars, authVars, sheetVars, raceVars>>
exceptSheets == <<localVars, orderVars, s3Vars, megaVars, sdkVars, runVars, fetchVars, filterVars, authVars, exportVars, raceVars>>
exceptRace == <<localVars, orderVars, s3Vars, megaVars, sdkVars, runVars, fetchVars, filterVars, authVars, exportVars, sheetVars>>
vars == <<localVars, orderVars, s3Vars, megaVars, laterVars>>

InitLocal ==
    /\ file = Absent
    /\ clock = 0
    /\ ret = 0
    /\ outcome = "none"
    /\ lastData = <<>>

\* The lanes are not in use.
IdleOrder ==
    /\ laneA = Absent /\ laneB = Absent
    /\ sheetA = NoSheet /\ sheetB = NoSheet
    /\ b1 = <<>> /\ b2 = <<>>
    /\ stored = 0

\* No S3 call is in progress.
None == [found |-> FALSE, df |-> <<>>]
IdleS3 ==
    /\ s3Pre = Absent
    /\ s3History = Absent
    /\ s3Backup = Absent
    /\ pc = "idle"
    /\ existing = None
    /\ storeAttempt = 0
    /\ ioAttempt = 0
    /\ lastErr = "none"
    /\ failedAt = "none"
    /\ latestPuts = 0
    /\ putsOk = FALSE
    /\ onlyTransient = TRUE
    /\ fallbacks = 0
    /\ fallbackWrote = FALSE

IdleMega == megaBackup = Absent /\ uploaded = FALSE

\* No MEGA SDK call is in progress.
IdleSdk ==
    /\ sdkHistory = Absent
    /\ sdkPc = "idle"
    /\ sdkExisting = None
    /\ sdkAttempt = 0
    /\ sdkPre = <<>>
    /\ sdkReadFailed = FALSE
    /\ manualFiles = [upload_file |-> Absent, timestamped_file |-> Absent]

\* scrapers of scrape_all_sources, by position.
scrapers == <<"scrape_moneycontrol", "scrape_livemint", "scrape_financialexpress">>
Sources == 1..Len(scrapers)

\* No ScrapingJob.
NoJob == [status |-> "none", articles_scraped |-> 0, error_message |-> "", completed_at |-> FALSE]

\* scrape_all_sources has not been started.
IdleRun ==
    /\ runPc = "idle"
    /\ srcIdx = 1
    /\ job = NoJob
    /\ jobRows = [s \in Sources |-> NoJob]
    /\ total_success = 0
    /\ total_failed = 0
    /\ successMsgs = {}
    /\ failedMsgs = {}
    /\ ran = <<>>
    /\ handleEnd = [s \in Sources |-> "none"]
    /\ scraped = [s \in Sources |-> -1]
    /\ lastExc = ""
    /\ verdict = "none"

\* The most pages a scraper is asked for.
MaxPages == 5
MaxCategories == 2
Pages == 1..MaxPages

\* An url that has no Article row, and a row stored by an earlier run.
NoArticle == [exists |-> FALSE, content |-> "", scraped_at |-> 0]
OldArticle == [exists |-> TRUE, content |-> "old", scraped_at |-> 0]

\* No scraper has run.
IdleFetch ==
    /\ fetchPc = "idle"
    /\ fSource = 1
    /\ category = 0
    /\ broken = {}
    /\ total_scraped = 0
    /\ articles_scraped = -1
    /\ max_pages = 1
    /\ page = 1
    /\ requested = <<>>
    /\ responses = [p \in Pages |-> "none"]
    /\ gathered = <<>>
    /\ scraped_count = 0
    /\ articleDb = [p \in Pages |-> NoArticle]

\* A Python str holding a date text: its layout, month and day (the year is
\* 2024 throughout); the other texts have no month and day.
Str(fmt, m, d) == [type |-> "str", fmt |-> fmt, m |-> m, d |-> d]
EmptyStr == Str("empty", 0, 0)

\* No request has been served.
IdleFilter ==
    /\ filterPc = "idle"
    /\ date_from = EmptyStr
    /\ date_to = EmptyStr
    /\ all_articles = <<>>
    /\ filtered_articles = <<>>

\* os.getenv gives None for a variable that is not set.
Unset == "None"
EnvNames == {"AWS_S3_BUCKET", "AWS_ACCESS_KEY_ID", "AWS_SECRET_ACCESS_KEY",
             "MEGA_EMAIL", "MEGA_PASSWORD"}
FullEnviron == [n \in EnvNames |-> "set"]

\* No storage service has been constructed; every variable is set.
IdleAuth ==
    /\ environ = FullEnviron
    /\ service = "none"
    /\ authPc = "idle"
    /\ attempt_number = 0
    /\ authExc = "none"
    /\ credentialed = FALSE


\* The response before download_articles has written anything.
NoResponse == [header |-> <<>>, rows |-> <<>>]

\* No export has been requested.
IdleExport ==
    /\ exportPc = "idle"
    /\ exportStored = <<>>
    /\ exportArticles = <<>>
    /\ response = NoResponse


\* GoogleSheetsService.store_news_data has not been called.
IdleSheets ==
    /\ gsheet = NoSheet
    /\ gsClock = 0
    /\ gsData = <<>>
    /\ gsRet = 0
    /\ gsOutcome = "none"

IdleRace ==
    /\ raceFile = Absent
    /\ racePc = <<>>
    /\ raceExisting = <<>>
    /\ raceBatch = <<>>
    /\ overlapped = FALSE

IdleLater == sdkNodes = <<>> /\ IdleSdk /\ IdleRun /\ IdleFetch /\ IdleFilter /\ IdleAuth /\ IdleExport /\ IdleSheets /\ IdleRace

Init == InitLocal /\ IdleOrder /\ s3Latest = Absent /\ IdleS3 /\ IdleMega /\ IdleLater

\* Time passes between calls (datetime.now() has a resolution of one second:
\* two calls may fall into the same second).
Tick ==
    /\ clock < MaxClock
    /\ clock' = clock + 1
    /\ UNCHANGED <<file, ret, outcome, lastData, orderVars, s3Vars, megaVars, laterVars>>

\* store_news_data(data, source) with an empty batch: return 0 at once.
StoreEmpty ==
    /\ lastData' = <<>>
    /\ ret' = 0
    /\ outcome' = "returned"
    /\ UNCHANGED <<file, clock, orderVars, s3Vars, megaVars, laterVars>>

\* store_news_data(data, source): merge, write, return len(df).
StoreOk(data) ==
    /\ data # <<>>
    /\ file' = CsvFile(CombinedLocal(file, data, clock))
    /\ lastData' = data
    /\ ret' = Len(data)
    /\ outcome' = "returned"
    /\ UNCHANGED <<clock, orderVars, s3Vars, megaVars, laterVars>>

\* store_news_data(data, source) when combined_df.to_csv raises (disk full,
\* permission): the exception is logged and re-raised.  open(path, 'w') may
\* already have truncated the file.
StoreWriteFails(data) ==
    /\ data # <<>>
    /\ file' \in {file, Corrupt}
    /\ lastData' = data
    /\ outcome' = "raised"
    /\ UNCHANGED <<clock, ret, orderVars, s3Vars, megaVars, laterVars>>

StoreNewsData == \E data \in Batches : StoreOk(data) \/ StoreWriteFails(data)

Next == Tick \/ StoreEmpty \/ StoreNewsData

Spec == Init /\ [][Next]_vars

\* ------------------------------------------- two batches, in either order
\* The dataset the two lanes start from: what a first store of some batch has
\* left (nothing for an empty batch), or a file that has become unreadable.
InitOrder ==
    /\ InitLocal /\ s3Latest = Absent /\ IdleS3 /\ IdleMega /\ IdleLater
    /\ \E d \in Batches, unreadable \in BOOLEAN :
        /\ laneA = IF unreadable THEN Corrupt ELSE StoreResultLocal(Absent, d, 0)
        /\ laneB = laneA
        /\ sheetA = IF d = <<>> THEN NoSheet ELSE SheetsStore(NoSheet, d, 0).sheet
        /\ sheetB = sheetA
    /\ b1 \in Batches
    /\ b2 \in Batches
    /\ stored = 0

\* store_news_data(b1) on lane A, store_news_data(b2) on lane B.
StoreFirst ==
    /\ stored = 0
    /\ laneA' = StoreResultLocal(laneA, b1, 0)
    /\ laneB' = StoreResultLocal(laneB, b2, 0)
    /\ sheetA' = SheetsStore(sheetA, b1, 0).sheet
    /\ sheetB' = SheetsStore(sheetB, b2, 0).sheet
    /\ stored' = 1
    /\ UNCHANGED <<b1, b2, localVars, s3Vars, megaVars, laterVars>>

\* store_news_data(b2) on lane A, store_news_data(b1) on lane B.
StoreSecond ==
    /\ stored = 1
    /\ laneA' = StoreResultLocal(laneA, b2, 1)
    /\ laneB' = StoreResultLocal(laneB, b1, 1)
    /\ sheetA' = SheetsStore(sheetA, b2, 1).sheet
    /\ sheetB' = SheetsStore(sheetB, b1, 1).sheet
    /\ stored' = 2
    /\ UNCHANGED <<b1, b2, localVars, s3Vars, megaVars, laterVars>>

NextOrder == StoreFirst \/ StoreSecond

SpecOrder == InitOrder /\ [][NextOrder]_vars

\* ------------------------------------------------------- S3StorageService
\* max_attempts of the three @simple_retry decorators.
DownloadMaxAttempts == 3
UploadMaxAttempts == 3
StoreMaxAttempts == 3

\* The batches handed to the S3 service.
A1 == [url |-> "u1", title |-> "t1"]
A2 == [url |-> "u2", title |-> "t1"]
S3Batches == {<<>>, <<A1>>, <<A2>>, <<A1, A2>>, <<A1, A1>>}

\* simple_retry.wrapper: an exception of the last attempt is raised to the
\* caller, any other exception of any kind is followed by another attempt.
Exhausted(attempt, max_attempts) == attempt = max_attempts - 1

\* The exceptions botocore raises for a request that fails.
RequestErrors == {"TransientIO", "Unauthenticated"}

\* df and combined_df of the S3 call in progress.
S3Frame == DataFrame(lastData, clock)
S3Combined == MergeCsv(existing, S3Frame)

\* The bucket as the service finds it: the latest object may be missing or
\* may have been replaced by a payload pandas cannot parse.
InitS3 ==
    /\ InitLocal /\ IdleOrder /\ IdleMega /\ IdleLater
    /\ s3Latest \in {Absent, Corrupt}
    /\ IdleS3

\* store_news_data(data, source) with an empty batch returns 0 in its first
\* attempt.
S3StoreEmpty_Mutant ==
    /\ pc = "idle"
    /\ lastData' = <<>>
    /\ ret' = 0
    /\ outcome' = "returned"
    /\ s3History' = CsvFile(<<>>)
    /\ UNCHANGED <<file, clock, orderVars, s3Latest, s3Pre, s3Backup, pc, existing, storeAttempt,
                   ioAttempt, lastErr, failedAt, latestPuts, putsOk, onlyTransient, fallbacks,
                   fallbackWrote, megaVars, laterVars>>
S3StoreEmpty ==
    /\ pc = "idle"
    /\ lastData' = <<>>
    /\ ret' = 0
    /\ outcome' = "returned"
    /\ UNCHANGED <<file, clock, orderVars, s3Vars, megaVars, laterVars>>

\* store_news_data(data, source) is called: the wrapper starts its first
\* attempt, which begins with the download of the latest object.
S3Call(data) ==
    /\ pc = "idle"
    /\ data # <<>>
    /\ lastData' = data
    /\ outcome' = "running"
    /\ pc' = "download"
    /\ s3Pre' = s3Latest
    /\ existing' = None
    /\ storeAttempt' = 0
    /\ ioAttempt' = 0
    /\ lastErr' = "none"
    /\ failedAt' = "none"
    /\ latestPuts' = 0
    /\ putsOk' = FALSE
    /\ onlyTransient' = TRUE
    /\ fallbacks' = 0
    /\ fallbackWrote' = FALSE
    /\ UNCHANGED <<file, clock, ret, orderVars, s3Latest, s3History, s3Backup, megaVars, laterVars>>

\* An attempt of a wrapped download or upload raised an exception of the
\* kind: the wrapper tries again, or raises into the body of store_news_data,
\* whose except clause runs the fallback.
AttemptFails(kind, max_attempts) ==
    /\ lastErr' = kind
    /\ onlyTransient' = (onlyTransient /\ kind = "TransientIO")
    /\ IF Exhausted(ioAttempt, max_attempts)
       THEN pc' = "fallback" /\ failedAt' = pc /\ ioAttempt' = ioAttempt
       ELSE pc' = pc /\ failedAt' = failedAt /\ ioAttempt' = ioAttempt + 1

\* _download_csv_from_s3 returns the parsed object.
S3DownloadOk ==
    /\ pc = "download"
    /\ s3Latest.st = "ok"
    /\ existing' = [found |-> TRUE, df |-> read_csv(s3Latest.rows)]
    /\ pc' = "upload_latest"
    /\ ioAttempt' = 0
    /\ UNCHANGED <<localVars, orderVars, s3Latest, s3Pre, s3History, s3Backup, storeAttempt, lastErr,
                   failedAt, latestPuts, putsOk, onlyTransient, fallbacks, fallbackWrote, megaVars, laterVars>>

\* _download_csv_from_s3 gets NoSuchKey and returns None.
S3DownloadNoSuchKey_Mutant ==
    /\ pc = "download"
    /\ s3Latest.st = "absent"
    /\ AttemptFails("NotFound", DownloadMaxAttempts)
    /\ UNCHANGED <<localVars, orderVars, s3Latest, s3Pre, s3History, s3Backup, existing, storeAttempt,
                   latestPuts, putsOk, fallbacks, fallbackWrote, megaVars, laterVars>>
S3DownloadNoSuchKey ==
    /\ pc = "download"
    /\ s3Latest.st = "absent"
    /\ existing' = None
    /\ pc' = "upload_latest"
    /\ ioAttempt' = 0
    /\ UNCHANGED <<localVars, orderVars, s3Latest, s3Pre, s3History, s3Backup, storeAttempt, lastErr,
                   failedAt, latestPuts, putsOk, onlyTransient, fallbacks, fallbackWrote, megaVars, laterVars>>

\* _download_csv_from_s3 raises: get_object failed, or the payload did not
\* parse.
S3DownloadFails ==
    /\ pc = "download"
    /\ \E kind \in RequestErrors \cup (IF s3Latest.st = "corrupt" THEN {"Corrupt"} ELSE {}) :
            AttemptFails(kind, DownloadMaxAttempts)
    /\ UNCHANGED <<localVars, orderVars, s3Latest, s3Pre, s3History, s3Backup, existing, storeAttempt,
                   latestPuts, putsOk, fallbacks, fallbackWrote, megaVars, laterVars>>

\* _upload_csv_to_s3(combined_df, latest_key): put_object replaces the object.
S3UploadLatestOk ==
    /\ pc = "upload_latest"
    /\ s3Latest' = CsvFile(to_csv(S3Combined))
    /\ latestPuts' = latestPuts + 1
    /\ putsOk' = TRUE
    /\ pc' = "upload_history"
    /\ ioAttempt' = 0
    /\ UNCHANGED <<localVars, orderVars, s3Pre, s3History, s3Backup, existing, storeAttempt, lastErr,
                   failedAt, onlyTransient, fallbacks, fallbackWrote, megaVars, laterVars>>

\* _upload_csv_to_s3(combined_df, latest_key): put_object raises.
S3UploadLatestFails ==
    /\ pc = "upload_latest"
    /\ latestPuts' = latestPuts + 1
    /\ \E kind \in RequestErrors : AttemptFails(kind, UploadMaxAttempts)
    /\ UNCHANGED <<localVars, orderVars, s3Latest, s3Pre, s3History, s3Backup, existing, storeAttempt,
                   putsOk, fallbacks, fallbackWrote, megaVars, laterVars>>

\* _upload_csv_to_s3(df, history_key) succeeds and store_news_data returns
\* len(df).
S3UploadHistoryOk ==
    /\ pc = "upload_history"
    /\ s3History' = CsvFile(to_csv(S3Frame))
    /\ pc' = "idle"
    /\ ret' = Len(S3Frame)
    /\ outcome' = "returned"
    /\ UNCHANGED <<file, clock, lastData, orderVars, s3Latest, s3Pre, s3Backup, existing, storeAttempt,
                   ioAttempt, lastErr, failedAt, latestPuts, putsOk, onlyTransient, fallbacks,
                   fallbackWrote, megaVars, laterVars>>

\* _upload_csv_to_s3(df, history_key): put_object raises.
S3UploadHistoryFails ==
    /\ pc = "upload_history"
    /\ \E kind \in RequestErrors : AttemptFails(kind, UploadMaxAttempts)
    /\ UNCHANGED <<localVars, orderVars, s3Latest, s3Pre, s3History, s3Backup, existing, storeAttempt,
                   latestPuts, putsOk, fallbacks, fallbackWrote, megaVars, laterVars>>

\* The except clause of store_news_data: _fallback_to_local_storage(data,
\* source) writes the batch to a local file (a failure of that write is only
\* logged), then the exception is raised again, to the wrapper around
\* store_news_data: it runs the body once more, or raises to the caller.
S3Fallback ==
    /\ pc = "fallback"
    /\ fallbacks' = fallbacks + 1
    /\ \E wrote \in BOOLEAN :
        /\ fallbackWrote' = wrote
        /\ s3Backup' = IF wrote THEN CsvFile(to_csv(S3Frame)) ELSE s3Backup
    /\ IF Exhausted(storeAttempt, StoreMaxAttempts)
       THEN /\ pc' = "idle"
            /\ outcome' = "raised"
            /\ UNCHANGED <<storeAttempt, ioAttempt>>
       ELSE /\ pc' = "download"
            /\ storeAttempt' = storeAttempt + 1
            /\ ioAttempt' = 0
            /\ UNCHANGED outcome
    /\ UNCHANGED <<file, clock, ret, lastData, orderVars, s3Latest, s3Pre, s3History, existing, lastErr,
                   failedAt, latestPuts, putsOk, onlyTransient, megaVars, laterVars>>

S3StoreNewsData == \E data \in S3Batches : S3Call(data)

NextS3 ==
    \/ S3StoreEmpty
    \/ S3StoreNewsData
    \/ S3DownloadOk
    \/ S3DownloadNoSuchKey
    \/ S3DownloadFails
    \/ S3UploadLatestOk
    \/ S3UploadLatestFails
    \/ S3UploadHistoryOk
    \/ S3UploadHistoryFails
    \/ S3Fallback

SpecS3 == InitS3 /\ [][NextS3]_vars

\* --------------------------------------------------- MegaCSVStorageService
\* _download_csv_from_mega: the file of the backup directory, parsed; None
\* when it is missing or does not parse.
LoadExistingMega(f) ==
    IF f.st = "ok" THEN [found |-> TRUE, df |-> read_csv(f.rows)] ELSE None

InitMega == InitLocal /\ IdleOrder /\ s3Latest = Absent /\ IdleS3 /\ IdleMega /\ IdleLater

\* store_news_data(data, source) with an empty batch: return 0 at once.
MegaStoreEmpty ==
    /\ lastData' = <<>>
    /\ ret' = 0
    /\ outcome' = "returned"
    /\ UNCHANGED <<file, clock, orderVars, s3Vars, megaVars, laterVars>>

\* store_news_data(data, source): the merged frame is written to a temporary
\* file and _upload_csv_to_mega copies it into the backup directory.  When the
\* copy raises, _upload_csv_to_mega returns False (the copy may have left a
\* partial file), a warning is logged, the temporary file is removed and
\* len(df) is returned all the same.
MegaStore(data) ==
    /\ data # <<>>
    /\ LET combined == to_csv(MergeCsv(LoadExistingMega(megaBackup), DataFrame(data, clock)))
       IN  \E success \in BOOLEAN :
            /\ uploaded' = success
            /\ megaBackup' \in (IF success THEN {CsvFile(combined)} ELSE {megaBackup, Corrupt})
    /\ lastData' = data
    /\ ret' = Len(data)
    /\ outcome' = "returned"
    /\ UNCHANGED <<file, clock, orderVars, s3Vars, laterVars>>

\* store_news_data(data, source) when writing the temporary file raises: the
\* exception is logged and raised again.
MegaStoreRaises(data) ==
    /\ data # <<>>
    /\ lastData' = data
    /\ outcome' = "raised"
    /\ uploaded' = FALSE
    /\ UNCHANGED <<file, clock, ret, orderVars, s3Vars, megaBackup, laterVars>>

MegaStoreNewsData == \E data \in Batches : MegaStore(data) \/ MegaStoreRaises(data)

NextMega == MegaStoreEmpty \/ MegaStoreNewsData

SpecMega == InitMega /\ [][NextMega]_vars

\* --------------------------------------------------- MegaSDKStorageService
\* The most nodes of one name the folder is let to hold: a node is added when
\* an upload follows a delete that did not go through.
MaxNodes == 2

\* The batches handed to the MEGA SDK service.
SdkBatches == {<<A1>>, <<A2>>}

\* df and combined_df of the MEGA SDK call in progress.
SdkFrame == DataFrame(lastData, clock)
SdkCombined == MergeCsv(sdkExisting, SdkFrame)

\* The sequence without its i-th element.
RemoveAt(s, i) == SubSeq(s, 1, i - 1) \o SubSeq(s, i + 1, Len(s))

\* The account as the service finds it: no node of the name, or one whose
\* payload pandas cannot parse.
InitSdk ==
    /\ InitLocal /\ IdleOrder /\ s3Latest = Absent /\ IdleS3 /\ IdleMega
    /\ sdkNodes \in {<<>>, <<Corrupt>>}
    /\ IdleSdk
    /\ IdleRun /\ IdleFetch /\ IdleFilter /\ IdleAuth /\ IdleExport /\ IdleSheets /\ IdleRace

\* store_news_data(data, source) with an empty batch returns 0 in its first
\* attempt.
SdkStoreEmpty ==
    /\ sdkPc \in {"idle", "terminated"}
    /\ sdkPc' = "idle"
    /\ lastData' = <<>>
    /\ ret' = 0
    /\ outcome' = "returned"
    /\ UNCHANGED <<file, clock, exceptSdk, sdkNodes, sdkHistory, sdkExisting,
                   sdkAttempt, sdkPre, sdkReadFailed, manualFiles>>

\* store_news_data(data, source) is called: the first attempt begins with
\* _download_existing_csv.
SdkCall(data) ==
    /\ sdkPc \in {"idle", "terminated"}
    /\ data # <<>>
    /\ lastData' = data
    /\ outcome' = "running"
    /\ sdkPc' = "download"
    /\ sdkExisting' = None
    /\ sdkAttempt' = 0
    /\ sdkPre' = sdkNodes
    /\ sdkReadFailed' = FALSE
    /\ UNCHANGED <<file, clock, ret, exceptSdk, sdkNodes, sdkHistory, manualFiles>>

\* _download_existing_csv finds a node of the name (files.items() yields the
\* nodes in an order the service does not control), downloads and parses it.
SdkDownloadOk ==
    /\ sdkPc = "download"
    /\ \E i \in 1..Len(sdkNodes) :
        /\ sdkNodes[i].st = "ok"
        /\ sdkExisting' = [found |-> TRUE, df |-> read_csv(sdkNodes[i].rows)]
    /\ sdkPc' = "delete"
    /\ UNCHANGED <<localVars, exceptSdk, sdkNodes, sdkHistory, sdkAttempt,
                   sdkPre, sdkReadFailed, manualFiles>>

\* _download_existing_csv returns None: no node has the name, or get_files,
\* download or read_csv raised and the exception was logged as a warning.
SdkDownloadNone ==
    /\ sdkPc = "download"
    /\ sdkExisting' = None
    /\ sdkReadFailed' = (sdkReadFailed \/ sdkNodes # <<>>)
    /\ sdkPc' = "delete"
    /\ UNCHANGED <<localVars, exceptSdk, sdkNodes, sdkHistory, sdkAttempt,
                   sdkPre, manualFiles>>

\* _upload_csv, _delete_existing_file: the first node found with the name is
\* deleted.
SdkDeleteOk ==
    /\ sdkPc = "delete"
    /\ \E i \in 1..Len(sdkNodes) : sdkNodes' = RemoveAt(sdkNodes, i)
    /\ sdkPc' = "upload"
    /\ UNCHANGED <<localVars, exceptSdk, sdkHistory, sdkExisting, sdkAttempt,
                   sdkPre, sdkReadFailed, manualFiles>>

\* _delete_existing_file deletes nothing: no node has the name, or get_files
\* or delete raised and the exception was logged as a warning.
SdkDeleteSkipped ==
    /\ sdkPc = "delete"
    /\ Len(sdkNodes) < MaxNodes
    /\ sdkPc' = "upload"
    /\ UNCHANGED <<localVars, exceptSdk, sdkNodes, sdkHistory, sdkExisting,
                   sdkAttempt, sdkPre, sdkReadFailed, manualFiles>>

\* _upload_csv(combined_df, filename): account.upload adds a node.
SdkUploadOk ==
    /\ sdkPc = "upload"
    /\ sdkNodes' = Append(sdkNodes, CsvFile(to_csv(SdkCombined)))
    /\ sdkPc' = "history"
    /\ UNCHANGED <<localVars, exceptSdk, sdkHistory, sdkExisting, sdkAttempt,
                   sdkPre, sdkReadFailed, manualFiles>>

\* _upload_csv(combined_df, filename): account.upload raises.
SdkUploadFails ==
    /\ sdkPc = "upload"
    /\ sdkPc' = "fallback"
    /\ UNCHANGED <<localVars, exceptSdk, sdkNodes, sdkHistory, sdkExisting,
                   sdkAttempt, sdkPre, sdkReadFailed, manualFiles>>

\* _upload_csv(df, timestamped_filename) succeeds and store_news_data returns
\* len(df).
SdkUploadHistoryOk ==
    /\ sdkPc = "history"
    /\ sdkHistory' = CsvFile(to_csv(SdkFrame))
    /\ sdkPc' = "idle"
    /\ ret' = Len(SdkFrame)
    /\ outcome' = "returned"
    /\ UNCHANGED <<file, clock, lastData, exceptSdk, sdkNodes, sdkExisting,
                   sdkAttempt, sdkPre, sdkReadFailed, manualFiles>>

\* _upload_csv(df, timestamped_filename) raises.
SdkUploadHistoryFails ==
    /\ sdkPc = "history"
    /\ sdkPc' = "fallback"
    /\ UNCHANGED <<localVars, exceptSdk, sdkNodes, sdkHistory, sdkExisting,
                   sdkAttempt, sdkPre, sdkReadFailed, manualFiles>>

\* MegaManualUploadService.store_news_data(data, source), as far as it gets:
\* it writes the upload-ready file, then the backup file (the file
\* SimpleFileStorageService keeps), then the timestamped file; written counts
\* the files written before an exception, 3 when there was none.
ManualStore(written) ==
    LET combined == CsvFile(CombinedLocal(file, lastData, clock))
    IN  /\ manualFiles' =
            [upload_file |-> IF written >= 1 THEN combined ELSE manualFiles.upload_file,
             timestamped_file |-> IF written = 3 THEN CsvFile(to_csv(SdkFrame))
                                  ELSE manualFiles.timestamped_file]
        /\ file' = IF written >= 2 THEN combined ELSE file

\* The except clause of store_news_data: _fallback_to_local_storage(data,
\* source) runs the manual upload service (its failure is only logged), then
\* the exception is raised again, to the tenacity wrapper: it runs the body
\* once more, or raises RetryError to the caller after the third attempt.
SdkFallback ==
    /\ sdkPc = "fallback"
    /\ \E written \in 0..3 : ManualStore(written)
    /\ IF sdkAttempt = StoreMaxAttempts - 1
       THEN /\ sdkPc' = "idle"
            /\ outcome' = "raised"
            /\ UNCHANGED sdkAttempt
       ELSE /\ sdkPc' = "download"
            /\ sdkAttempt' = sdkAttempt + 1
            /\ UNCHANGED outcome
    /\ UNCHANGED <<clock, ret, lastData, exceptSdk, sdkNodes, sdkHistory,
                   sdkExisting, sdkPre, sdkReadFailed>>

\* The process is terminated while a call is in progress.
SdkInterrupt ==
    /\ sdkPc \notin {"idle", "terminated"}
    /\ sdkPc' = "terminated"
    /\ outcome' = "killed"
    /\ UNCHANGED <<file, clock, ret, lastData, exceptSdk, sdkNodes, sdkHistory,
                   sdkExisting, sdkAttempt, sdkPre, sdkReadFailed, manualFiles>>

SdkStoreNewsData == \E data \in SdkBatches : SdkCall(data)

NextSdk ==
    \/ SdkStoreEmpty
    \/ SdkStoreNewsData
    \/ SdkDownloadOk
    \/ SdkDownloadNone
    \/ SdkDeleteOk
    \/ SdkDeleteSkipped
    \/ SdkUploadOk
    \/ SdkUploadFails
    \/ SdkUploadHistoryOk
    \/ SdkUploadHistoryFails
    \/ SdkFallback
    \/ SdkInterrupt

SpecSdk == InitSdk /\ [][NextSdk]_vars

\* ------------------------------------- scrape_all_sources and its commands
\* The most articles one command is let to scrape.
MaxScraped == 1

\* The exceptions the body of a command's handle meets.
Exceptions == {"database is locked"}

\* ScrapingJob.objects.create(source=..., started_at=now, status='running').
RunningJob == [status |-> "running", articles_scraped |-> 0, error_message |-> "",
               completed_at |-> FALSE]

\* job.articles_scraped = total_scraped; job.status = 'completed';
\* job.completed_at = timezone.now()
CompletedJob(j, count) ==
    [j EXCEPT !.articles_scraped = count, !.status = "completed", !.completed_at = TRUE]

\* job.status = 'failed'; job.error_message = str(e); job.completed_at =
\* timezone.now()
FailedJob_Mutant(j, e) == [j EXCEPT !.error_message = e, !.completed_at = TRUE]
FailedJob(j, e) ==
    [j EXCEPT !.status = "failed", !.error_message = e, !.completed_at = TRUE]

InitRun ==
    /\ InitLocal /\ IdleOrder /\ s3Latest = Absent /\ IdleS3 /\ IdleMega
    /\ sdkNodes = <<>> /\ IdleSdk
    /\ IdleRun /\ IdleFetch /\ IdleFilter /\ IdleAuth /\ IdleExport /\ IdleSheets /\ IdleRace

\* scrape_all_sources.handle, try branch of the loop body: call_command has
\* returned; the scraper is reported as completed and counted as a success.
CommandReturned ==
    /\ handleEnd' = [handleEnd EXCEPT ![srcIdx] = "returned"]
    /\ successMsgs' = successMsgs \cup {srcIdx}
    /\ total_success' = total_success + 1
    /\ srcIdx' = srcIdx + 1
    /\ runPc' = "loop"
    /\ UNCHANGED <<failedMsgs, total_failed>>

\* scrape_all_sources.handle, except branch of the loop body: call_command
\* has raised; the scraper is reported and counted as failed, and the loop
\* goes on.
CommandRaised_Mutant ==
    /\ handleEnd' = [handleEnd EXCEPT ![srcIdx] = "raised"]
    /\ srcIdx' = Len(scrapers) + 1
    /\ runPc' = "loop"
    /\ UNCHANGED <<successMsgs, total_success, failedMsgs, total_failed>>
CommandRaised ==
    /\ handleEnd' = [handleEnd EXCEPT ![srcIdx] = "raised"]
    /\ failedMsgs' = failedMsgs \cup {srcIdx}
    /\ total_failed' = total_failed + 1
    /\ srcIdx' = srcIdx + 1
    /\ runPc' = "loop"
    /\ UNCHANGED <<successMsgs, total_success>>

\* scrape_all_sources.handle is entered.
RunStart ==
    /\ runPc = "idle"
    /\ runPc' = "loop"
    /\ UNCHANGED <<exceptRun, srcIdx, job, jobRows, total_success, total_failed, successMsgs,
                   failedMsgs, ran, handleEnd, scraped, lastExc, verdict>>

\* The loop takes the next scraper: call_command(command_name, ...).
RunCallCommand ==
    /\ runPc = "loop"
    /\ srcIdx <= Len(scrapers)
    /\ ran' = Append(ran, srcIdx)
    /\ runPc' = "create"
    /\ UNCHANGED <<exceptRun, srcIdx, job, jobRows, total_success, total_failed, successMsgs,
                   failedMsgs, handleEnd, scraped, lastExc, verdict>>

\* Command.handle: the job row is created with status 'running'.
JobCreated ==
    /\ runPc = "create"
    /\ job' = RunningJob
    /\ jobRows' = [jobRows EXCEPT ![srcIdx] = RunningJob]
    /\ runPc' = "scrape"
    /\ UNCHANGED <<exceptRun, srcIdx, total_success, total_failed, successMsgs, failedMsgs, ran,
                   handleEnd, scraped, lastExc, verdict>>

\* Command.handle: ScrapingJob.objects.create raises; it stands outside the
\* try statement, so the exception leaves handle.
JobCreateRaises ==
    /\ runPc = "create"
    /\ CommandRaised
    /\ UNCHANGED <<exceptRun, job, jobRows, ran, scraped, lastExc, verdict>>

\* Command.handle: the scraping of the categories returns its counts and the
\* job object is set to 'completed'.
ScrapeReturns(count) ==
    /\ runPc = "scrape"
    /\ scraped' = [scraped EXCEPT ![srcIdx] = count]
    /\ job' = CompletedJob(job, count)
    /\ runPc' = "save"
    /\ UNCHANGED <<exceptRun, srcIdx, jobRows, total_success, total_failed, successMsgs,
                   failedMsgs, ran, handleEnd, lastExc, verdict>>

\* Command.handle: an exception is raised in the try body before the job
\* object is touched.
ScrapeRaises(e) ==
    /\ runPc = "scrape"
    /\ lastExc' = e
    /\ runPc' = "except"
    /\ UNCHANGED <<exceptRun, srcIdx, job, jobRows, total_success, total_failed, successMsgs,
                   failedMsgs, ran, handleEnd, scraped, verdict>>

\* Command.handle: job.save() stores the completed job and handle returns.
SaveCompletedOk ==
    /\ runPc = "save"
    /\ jobRows' = [jobRows EXCEPT ![srcIdx] = job]
    /\ CommandReturned
    /\ UNCHANGED <<exceptRun, job, ran, scraped, lastExc, verdict>>

\* Command.handle: job.save() of the completed job raises.
SaveCompletedRaises(e) ==
    /\ runPc = "save"
    /\ lastExc' = e
    /\ runPc' = "except"
    /\ UNCHANGED <<exceptRun, srcIdx, job, jobRows, total_success, total_failed, successMsgs,
                   failedMsgs, ran, handleEnd, scraped, verdict>>

\* Command.handle, except clause: the job is set to 'failed' and saved; the
\* exception is not raised again, so handle returns.
ExceptSaveOk ==
    /\ runPc = "except"
    /\ job' = FailedJob(job, lastExc)
    /\ jobRows' = [jobRows EXCEPT ![srcIdx] = job']
    /\ CommandReturned
    /\ UNCHANGED <<exceptRun, ran, scraped, lastExc, verdict>>

\* Command.handle, except clause: job.save() raises, and the exception
\* leaves handle with the row still as it was.
ExceptSaveRaises ==
    /\ runPc = "except"
    /\ job' = FailedJob(job, lastExc)
    /\ CommandRaised
    /\ UNCHANGED <<exceptRun, jobRows, ran, scraped, lastExc, verdict>>

\* scrape_all_sources.handle after the loop: the summary and the closing
\* line.
RunSummary ==
    /\ runPc = "loop"
    /\ srcIdx > Len(scrapers)
    /\ verdict' = IF total_success = Len(scrapers) THEN "all"
                  ELSE IF total_success > 0 THEN "partial" ELSE "none"
    /\ runPc' = "done"
    /\ UNCHANGED <<exceptRun, srcIdx, job, jobRows, total_success, total_failed, successMsgs,
                   failedMsgs, ran, handleEnd, scraped, lastExc>>

Scrape == \E n \in 0..MaxScraped : ScrapeReturns(n)
TryBodyRaises == \E e \in Exceptions : ScrapeRaises(e) \/ SaveCompletedRaises(e)

NextRun ==
    \/ RunStart
    \/ RunCallCommand
    \/ JobCreated
    \/ JobCreateRaises
    \/ Scrape
    \/ TryBodyRaises
    \/ SaveCompletedOk
    \/ ExceptSaveOk
    \/ ExceptSaveRaises
    \/ RunSummary

SpecRun == InitRun /\ [][NextRun]_vars

\* ------------------------------------------- the page loop of a scraper
\* range(1, max_pages + 1) in scrape_moneycontrol, range(2, max_pages + 1) in
\* scrape_livemint and scrape_financialexpress.
FirstPage(src) == IF scrapers[src] = "scrape_moneycontrol" THEN 1 ELSE 2

\* len(categories) of the handle; scrape_livemint has the one loop of
\* scrape_news.
LenCategories(src) ==
    IF scrapers[src] = "scrape_moneycontrol" THEN 4
    ELSE IF scrapers[src] = "scrape_financialexpress" THEN 11
    ELSE 1

\* The categories of the model: the first MaxCategories of the list.
NumCategories(src) ==
    IF LenCategories(src) < MaxCategories THEN LenCategories(src) ELSE MaxCategories

\* The site: the post a page lists, with the body of its article.  The url
\* of the post is the number of the page; a page of another category lists
\* the same post.
PagePosts(p) == <<[url |-> p, content |-> "text"]>>

\* What a request of a page comes to: a 200 response with posts, a 200
\* response whose posts give no body, a 200 response in which no post is
\* found, another status, or an exception of httpx.get.
ResponseKinds == {"posts", "bodiless", "empty", "status", "error"}

\* extract_posts_from_page: scrape_moneycontrol appends every post, with
\* whatever extract_article_content gave; scrape_livemint and
\* scrape_financialexpress append a post only 'if content'.
extract_posts_from_page(src, p, kind) ==
    IF kind = "posts" THEN PagePosts(p)
    ELSE IF kind = "bodiless" /\ scrapers[src] = "scrape_moneycontrol"
    THEN <<[url |-> p, content |-> ""]>>
    ELSE <<>>

\* The Article rows an earlier run may have left: none, or those of the
\* posts of the first two pages.
InitFetch ==
    /\ InitLocal /\ IdleOrder /\ s3Latest = Absent /\ IdleS3 /\ IdleMega
    /\ sdkNodes = <<>> /\ IdleSdk
    /\ IdleRun /\ IdleFilter /\ IdleAuth /\ IdleExport /\ IdleSheets /\ IdleRace
    /\ fetchPc = "idle"
    /\ fSource = 1
    /\ category = 0
    /\ broken = {}
    /\ total_scraped = 0
    /\ articles_scraped = -1
    /\ max_pages = 1
    /\ page = 1
    /\ requested = <<>>
    /\ responses = [p \in Pages |-> "none"]
    /\ gathered = <<>>
    /\ scraped_count = 0
    /\ articleDb \in {[p \in Pages |-> NoArticle],
                      [p \in Pages |-> IF p <= 2 THEN OldArticle ELSE NoArticle]}

\* The page loop of scrape_category / scrape_news starts.
StartLoop(src) ==
    /\ fetchPc' = "loop"
    /\ page' = FirstPage(src)
    /\ requested' = <<>>
    /\ responses' = [p \in Pages |-> "none"]
    /\ gathered' = <<>>
    /\ scraped_count' = 0

\* handle(max_pages=n) of a scraper up to its first call of
\* scrape_category(category, max_pages) / scrape_news(max_pages).
FetchCall(src, n) ==
    /\ fetchPc = "idle"
    /\ fSource' = src
    /\ max_pages' = n
    /\ category' = 1
    /\ broken' = {}
    /\ total_scraped' = 0
    /\ StartLoop(src)
    /\ UNCHANGED <<exceptFetch, articles_scraped, articleDb>>

\* One round of the loop that ends it: the response is not a 200 one, no
\* post is found, or the request raises; the loop is left with break.
FetchPageBreaks_Mutant(kind) ==
    /\ fetchPc = "loop"
    /\ page <= max_pages
    /\ extract_posts_from_page(fSource, page, kind) = <<>>
    /\ requested' = Append(requested, page)
    /\ responses' = [responses EXCEPT ![page] = kind]
    /\ page' = page + 1
    /\ broken' = broken \cup {category}
    /\ UNCHANGED <<exceptFetch, fetchPc, fSource, category, total_scraped, articles_scraped,
                   max_pages, gathered, scraped_count, articleDb>>
FetchPageBreaks(kind) ==
    /\ fetchPc = "loop"
    /\ page <= max_pages
    /\ extract_posts_from_page(fSource, page, kind) = <<>>
    /\ requested' = Append(requested, page)
    /\ responses' = [responses EXCEPT ![page] = kind]
    /\ fetchPc' = "done"
    /\ broken' = broken \cup {category}
    /\ UNCHANGED <<exceptFetch, fSource, category, total_scraped, articles_scraped, max_pages,
                   page, gathered, scraped_count, articleDb>>

\* save_article(post): get_or_create gives the row the url has, or creates
\* one with the fields of the post and scraped_at now.
save_article_Mutant(db, post) ==
    [db EXCEPT ![post.url] = [exists |-> TRUE, content |-> post.content, scraped_at |-> 1]]
save_article(db, post) ==
    IF db[post.url].exists THEN db
    ELSE [db EXCEPT ![post.url] = [exists |-> TRUE, content |-> post.content, scraped_at |-> 1]]

\* One round of the loop with posts: each post goes to save_article, which
\* returns created of get_or_create, or False when get_or_create raises.
FetchPagePosts(kind, saved) ==
    /\ fetchPc = "loop"
    /\ page <= max_pages
    /\ extract_posts_from_page(fSource, page, kind) # <<>>
    /\ requested' = Append(requested, page)
    /\ responses' = [responses EXCEPT ![page] = kind]
    /\ gathered' = gathered \o extract_posts_from_page(fSource, page, kind)
    /\ LET post == extract_posts_from_page(fSource, page, kind)[1]
           created == saved /\ ~articleDb[post.url].exists
       IN  /\ articleDb' = IF saved THEN save_article(articleDb, post) ELSE articleDb
           /\ scraped_count' = IF created THEN scraped_count + 1 ELSE scraped_count
    /\ page' = page + 1
    /\ UNCHANGED <<exceptFetch, fetchPc, fSource, category, broken, total_scraped, articles_scraped,
                   max_pages>>

\* range is exhausted: return scraped_count.
FetchReturns ==
    /\ fetchPc = "loop"
    /\ page > max_pages
    /\ fetchPc' = "done"
    /\ UNCHANGED <<exceptFetch, fSource, category, broken, total_scraped, articles_scraped,
                   max_pages, page, requested, responses, gathered, scraped_count, articleDb>>

\* handle: total_scraped += scraped, and the loop 'for category in
\* categories' goes on to the next category.
FetchNextCategory ==
    /\ fetchPc = "done"
    /\ category < NumCategories(fSource)
    /\ total_scraped' = total_scraped + scraped_count
    /\ category' = category + 1
    /\ StartLoop(fSource)
    /\ UNCHANGED <<exceptFetch, fSource, broken, articles_scraped, max_pages, articleDb>>

\* handle after the last category: job.articles_scraped = total_scraped.
FetchHandleEnds ==
    /\ fetchPc = "done"
    /\ category = NumCategories(fSource)
    /\ total_scraped' = total_scraped + scraped_count
    /\ articles_scraped' = total_scraped + scraped_count
    /\ fetchPc' = "ended"
    /\ UNCHANGED <<exceptFetch, fSource, category, broken, max_pages, page, requested,
                   responses, gathered, scraped_count, articleDb>>

FetchStart == \E src \in Sources, n \in Pages : FetchCall(src, n)
\* get_or_create is let fail only for a post that has a body.
FetchPage ==
    \/ \E kind \in ResponseKinds : FetchPageBreaks(kind)
    \/ \E kind \in ResponseKinds, saved \in BOOLEAN :
            (saved \/ kind = "posts") /\ FetchPagePosts(kind, saved)

NextFetch == FetchStart \/ FetchPage \/ FetchReturns \/ FetchNextCategory \/ FetchHandleEnds

SpecFetch == InitFetch /\ [][NextFetch]_vars

\* ------------------------------------------- the date filter of the views
\* The most rows the filter loop is let to take.
MaxArticles == 2

\* The layouts strptime is called with.
FmtDate == "%Y-%m-%d"
FmtDateTime == "%Y-%m-%d %H:%M:%S"

\* The Python values that are no str: a float NaN, a pandas Timestamp of a
\* day, and NaT.
FloatNaN == [type |-> "float", fmt |-> "nan", m |-> 0, d |-> 0]
Timestamp(m, d) == [type |-> "Timestamp", fmt |-> "", m |-> m, d |-> d]
NaT == [type |-> "NaT", fmt |-> "", m |-> 0, d |-> 0]

\* The calendar of 2024.
DaysIn(m) == IF m = 2 THEN 29 ELSE IF m \in {4, 6, 9, 11} THEN 30 ELSE 31
ValidDate(m, d) == m \in 1..12 /\ d \in 1..DaysIn(m)

\* date objects of 2024, as numbers that compare as the dates do.
DayNo(m, d) == m * 100 + d

\* datetime.strptime(v, fmt).date(): TypeError for a value that is no str,
\* ValueError for a text of another layout or of no day of the calendar.
strptime(v, fmt) ==
    IF v.type # "str" THEN [exc |-> "TypeError", date |-> 0]
    ELSE IF v.fmt = fmt /\ ValidDate(v.m, v.d) THEN [exc |-> "none", date |-> DayNo(v.m, v.d)]
    ELSE [exc |-> "ValueError", date |-> 0]

\* bool(v): of the values of the model only the empty str is false.
Truthy(v) == v # EmptyStr

\* The month-day pairs of the texts of the model; February 31 is no day.
Days == {<<1, 1>>, <<1, 15>>, <<1, 31>>, <<2, 1>>, <<2, 31>>}
DateTexts == {Str(fmt, md[1], md[2]) : fmt \in {FmtDate, FmtDateTime}, md \in Days}

\* The cells of a CSV file: date texts, the text N/A, another text, nothing.
Cells == DateTexts \cup {Str("N/A", 0, 0), Str("text", 0, 0), EmptyStr}

\* pd.read_csv on a cell of an object column: an empty cell and N/A are read
\* as NaN, any other text as a str.
ReadValue(cell) == IF cell.fmt \in {"empty", "N/A"} THEN FloatNaN ELSE cell

\* pd.to_datetime(column, errors='coerce'): a Timestamp for a text of either
\* layout that names a day, NaT for anything else.
to_datetime(v) ==
    IF v.type = "str" /\ v.fmt \in {FmtDate, FmtDateTime} /\ ValidDate(v.m, v.d)
    THEN Timestamp(v.m, v.d)
    ELSE NaT

\* df['scraped_at'] = datetime.now().strftime('%Y-%m-%d %H:%M:%S'): the texts
\* the services write into the scraped_at column.
ScrapedAts == {c \in DateTexts : c.fmt = FmtDateTime /\ ValidDate(c.m, c.d)}
ScrapedNow == Str(FmtDateTime, 1, 15)

\* The rows of the stored CSV files: with a date column holding any cell, or
\* without one.
Rows ==
    {[has_date |-> TRUE, date |-> c, scraped_at |-> ScrapedNow] : c \in Cells}
        \cup {[has_date |-> FALSE, date |-> EmptyStr, scraped_at |-> c] : c \in ScrapedAts}

\* S3StorageService.get_all_news_data: the record to_dict('records') gives
\* for a row; article.get('date', '') of a record without the key is ''.
ToRecord(row) ==
    [date |-> IF row.has_date THEN to_datetime(ReadValue(row.date)) ELSE EmptyStr,
     scraped_at |-> ReadValue(row.scraped_at)]

\* The values of date_from and date_to: not given, a date, a date that is no
\* day of the calendar, a text of another layout.
Bounds == {EmptyStr, Str(FmtDate, 1, 1), Str(FmtDate, 1, 31), Str(FmtDate, 2, 31),
           Str(FmtDateTime, 1, 1)}

\* The date filter of the loop body: TRUE when the article is appended.
FilterKeeps(article, from, to) ==
    LET article_date_str == IF Truthy(article.date) THEN article.date ELSE article.scraped_at
        first == strptime(article_date_str, FmtDate)
        second == strptime(article_date_str, FmtDateTime)
        from_parsed == strptime(from, FmtDate)
        to_parsed == strptime(to, FmtDate)
    IN  IF ~(Truthy(from) \/ Truthy(to)) THEN TRUE
        ELSE IF ~Truthy(article_date_str) THEN TRUE
        ELSE IF first.exc = "TypeError" THEN FALSE
        ELSE IF first.exc = "ValueError" /\ second.exc = "ValueError" THEN TRUE
        ELSE LET article_date == IF first.exc = "none" THEN first.date ELSE second.date
             IN  /\ ~(Truthy(from) /\ from_parsed.exc = "none" /\ article_date < from_parsed.date)
                 /\ ~(Truthy(to) /\ to_parsed.exc = "none" /\ article_date > to_parsed.date)

InitFilter ==
    /\ InitLocal /\ IdleOrder /\ s3Latest = Absent /\ IdleS3 /\ IdleMega
    /\ sdkNodes = <<>> /\ IdleSdk
    /\ IdleRun /\ IdleFetch /\ IdleFilter /\ IdleAuth /\ IdleExport /\ IdleSheets /\ IdleRace

\* dashboard(request) / download_articles(request) with the two parameters.
FilterRequest(from, to) ==
    /\ filterPc = "idle"
    /\ filterPc' = "loop"
    /\ date_from' = from
    /\ date_to' = to
    /\ UNCHANGED <<exceptFilter, all_articles, filtered_articles>>

\* One round of 'for article in all_articles'.
FilterArticle(row) ==
    /\ filterPc = "loop"
    /\ Len(all_articles) < MaxArticles
    /\ all_articles' = Append(all_articles, row)
    /\ filtered_articles' = IF FilterKeeps(ToRecord(row), date_from, date_to)
                            THEN Append(filtered_articles, row)
                            ELSE filtered_articles
    /\ UNCHANGED <<exceptFilter, filterPc, date_from, date_to>>

\* The loop is over.
FilterDone ==
    /\ filterPc = "loop"
    /\ filterPc' = "done"
    /\ UNCHANGED <<exceptFilter, date_from, date_to, all_articles, filtered_articles>>

FilterCall == \E from \in Bounds, to \in Bounds : FilterRequest(from, to)
FilterLoop == \E row \in Rows : FilterArticle(row)

NextFilter == FilterCall \/ FilterLoop \/ FilterDone

SpecFilter == InitFilter /\ [][NextFilter]_vars

\* ------------------------------------------- construction of the services
\* S3StorageService.__init__, MegaSDKStorageService.__init__ and
\* MegaCSVStorageService.__init__: what each does with the credentials it
\* finds, or does not find, in the environment.

\* stop_after_attempt(3) of the tenacity wrapper around _authenticate.
AuthMaxAttempts == 3

EnvValues == {Unset, "", "set"}

\* os.getenv(name)
getenv(name) == environ[name]

\* Python's 'not value' for a looked-up variable: None and '' are falsy.
Falsy(v) == v = Unset \/ v = ""

\* What login and head_bucket can answer when credentials are handed over.
HeadBucket == {"ok", "404", "403"}
MegaLogin == {"session", "account", "none"}

InitAuth ==
    /\ InitLocal /\ IdleOrder /\ s3Latest = Absent /\ IdleS3 /\ IdleMega
    /\ sdkNodes = <<>> /\ IdleSdk
    /\ IdleRun /\ IdleFetch /\ IdleFilter /\ IdleExport /\ IdleSheets /\ IdleRace
    /\ environ \in [EnvNames -> EnvValues]
    /\ service = "none"
    /\ authPc = "idle"
    /\ attempt_number = 0
    /\ authExc = "none"
    /\ credentialed = FALSE

\* No construction is in progress.
AuthAtRest == authPc \in {"idle", "constructed", "raised"}

\* S3StorageService(): __init__ and the _ensure_s3_client it calls;
\* head_bucket answers head.
S3Init(head) ==
    /\ AuthAtRest
    /\ service' = "S3StorageService"
    /\ IF Falsy(getenv("AWS_S3_BUCKET"))
       THEN /\ authPc' = "raised"
            /\ authExc' = "ValueError"
            /\ attempt_number' = 0
            /\ credentialed' = FALSE
       ELSE /\ attempt_number' = 1
            /\ IF Falsy(getenv("AWS_ACCESS_KEY_ID")) \/ Falsy(getenv("AWS_SECRET_ACCESS_KEY"))
               THEN /\ authPc' = "raised"
                    /\ authExc' = "NoCredentialsError"
                    /\ credentialed' = FALSE
               ELSE IF head = "ok"
               THEN /\ authPc' = "constructed"
                    /\ authExc' = "none"
                    /\ credentialed' = TRUE
               ELSE /\ authPc' = "raised"
                    /\ authExc' = "Exception"
                    /\ credentialed' = FALSE
    /\ UNCHANGED <<exceptAuth, environ>>

\* MegaCSVStorageService(): __init__ and its _authenticate.
MegaCSVInit ==
    /\ AuthAtRest
    /\ service' = "MegaCSVStorageService"
    /\ attempt_number' = 1
    /\ credentialed' = (~Falsy(getenv("MEGA_EMAIL")) /\ ~Falsy(getenv("MEGA_PASSWORD")))
    /\ authPc' = "constructed"
    /\ authExc' = "none"
    /\ UNCHANGED <<exceptAuth, environ>>

\* MegaSDKStorageService(): __init__ up to its call of _authenticate.
MegaSDKInit ==
    /\ AuthAtRest
    /\ service' = "MegaSDKStorageService"
    /\ authPc' = "authenticating"
    /\ attempt_number' = 0
    /\ authExc' = "none"
    /\ credentialed' = FALSE
    /\ UNCHANGED <<exceptAuth, environ>>

\* The body of MegaSDKStorageService._authenticate raises.
AuthBodyRaises(login) ==
    \/ Falsy(getenv("MEGA_EMAIL")) \/ Falsy(getenv("MEGA_PASSWORD"))
    \/ login = "none"

\* One call of _authenticate by the tenacity wrapper, which returns.
MegaSDKAuthenticateOk(login) ==
    /\ authPc = "authenticating"
    /\ ~AuthBodyRaises(login)
    /\ attempt_number' = attempt_number + 1
    /\ authPc' = "constructed"
    /\ credentialed' = TRUE
    /\ UNCHANGED <<exceptAuth, environ, service, authExc>>

\* One call of _authenticate by the tenacity wrapper, which raises: the
\* wrapper calls again after a wait, and gives up after the last attempt.
MegaSDKAuthenticateRaises(login) ==
    /\ authPc = "authenticating"
    /\ AuthBodyRaises(login)
    /\ attempt_number' = attempt_number + 1
    /\ IF attempt_number + 1 >= AuthMaxAttempts
       THEN authPc' = "raised" /\ authExc' = "RetryError"
       ELSE authPc' = "authenticating" /\ authExc' = "Exception"
    /\ UNCHANGED <<exceptAuth, environ, service, credentialed>>

S3Construct == \E head \in HeadBucket : S3Init(head)
MegaSDKAuthenticate ==
    \E login \in MegaLogin : MegaSDKAuthenticateOk(login) \/ MegaSDKAuthenticateRaises(login)

NextAuth == S3Construct \/ MegaCSVInit \/ MegaSDKInit \/ MegaSDKAuthenticate

SpecAuth == InitAuth /\ [][NextAuth]_vars

\* ------------------------------------------------ export of the articles
\* download_articles (views.py): the CSV response written from the records
\* S3StorageService.get_all_news_data gives, with no filter parameter.

\* article.get('content', '')[:500]
ContentLimit == 500

\* A text is its length; of a text cut by the export, prefix is the number
\* of characters it shares with the stored text (the rest is '...').
Text(n) == [type |-> "str", len |-> n, prefix |-> n]

\* The lengths of the content cells of the stored file; 0 is an empty cell.
ContentLens == {0, 1, ContentLimit, ContentLimit + 1}
ExportRows == [url : Urls, content : ContentLens]

\* pd.read_csv on a content cell: an empty cell is read as NaN.
ReadText(n) == IF n = 0 THEN FloatNaN ELSE Text(n)

\* to_dict('records') of the rows read.
ExportRecords(rows) == [i \in 1..Len(rows) |-> [url |-> rows[i].url, content |-> ReadText(rows[i].content)]]

\* (content[:500] + '...') if len(content) > 500 else content
Truncate(content) ==
    IF content.len > ContentLimit
    THEN [type |-> "str", len |-> ContentLimit + 3, prefix |-> ContentLimit]
    ELSE content

ExportHeader == <<"Title", "URL", "Source", "Date", "Scraped At", "Content">>

InitExport ==
    /\ InitLocal /\ IdleOrder /\ s3Latest = Absent /\ IdleS3 /\ IdleMega
    /\ sdkNodes = <<>> /\ IdleSdk
    /\ IdleRun /\ IdleFetch /\ IdleFilter /\ IdleAuth /\ IdleSheets /\ IdleRace
    /\ exportPc = "idle"
    /\ exportStored \in SeqsUpTo(ExportRows, MaxArticles)
    /\ exportArticles = <<>>
    /\ response = NoResponse

\* download_articles up to writer.writerow(header): with no record it
\* redirects to the dashboard.
ExportCall ==
    /\ exportPc = "idle"
    /\ exportArticles' = ExportRecords(exportStored)
    /\ IF exportStored = <<>>
       THEN exportPc' = "redirected" /\ response' = NoResponse
       ELSE exportPc' = "writing" /\ response' = [header |-> ExportHeader, rows |-> <<>>]
    /\ UNCHANGED <<exceptExport, exportStored>>

\* The record the loop writes next.
NextArticle == exportArticles[Len(response.rows) + 1]

\* One round of 'for i, article in enumerate(filtered_articles, 1)'.
ExportWriteRow ==
    /\ exportPc = "writing"
    /\ Len(response.rows) < Len(exportArticles)
    /\ NextArticle.content.type = "str"
    /\ response' = [response EXCEPT !.rows = Append(@, [url |-> NextArticle.url,
                                                        content |-> Truncate(NextArticle.content)])]
    /\ UNCHANGED <<exceptExport, exportPc, exportStored, exportArticles>>

\* len(article.get('content', '')) raises TypeError for the float NaN; the
\* except clause of download_articles redirects to the dashboard.
ExportWriteRowRaises ==
    /\ exportPc = "writing"
    /\ Len(response.rows) < Len(exportArticles)
    /\ NextArticle.content.type # "str"
    /\ exportPc' = "redirected"
    /\ response' = NoResponse
    /\ UNCHANGED <<exceptExport, exportStored, exportArticles>>

\* return response
ExportReturn ==
    /\ exportPc = "writing"
    /\ Len(response.rows) = Len(exportArticles)
    /\ exportPc' = "returned"
    /\ UNCHANGED <<exceptExport, exportStored, exportArticles, response>>

NextExport == ExportCall \/ ExportWriteRow \/ ExportWriteRowRaises \/ ExportReturn

SpecExport == InitExport /\ [][NextExport]_vars

\* ------------------------------------ GoogleSheetsService.store_news_data
\* The items handed to the call: the url may be empty or carry white space;
\* the title is not the one of the row the sheet may hold.
SheetItems == [url : {"", "u1", " u1", "u2"}, title : {"t2"}]
SheetBatches == SeqsUpTo(SheetItems, MaxBatch)

\* The sheet is missing, holds the header row only, or holds a row written
\* earlier or typed in by hand.
InitSheets ==
    /\ InitLocal /\ IdleOrder /\ s3Latest = Absent /\ IdleS3 /\ IdleMega
    /\ sdkNodes = <<>> /\ IdleSdk
    /\ IdleRun /\ IdleFetch /\ IdleFilter /\ IdleAuth /\ IdleExport /\ IdleRace
    /\ gsheet \in {NoSheet, [exists |-> TRUE, rows |-> <<>>]}
                    \cup {[exists |-> TRUE, rows |-> <<[title |-> "t1", url |-> u, scraped_at |-> 0]>>] :
                            u \in {"", "u1", " u1"}}
    /\ gsClock = 0
    /\ gsData = <<>>
    /\ gsRet = 0
    /\ gsOutcome = "none"

\* Time passes between two calls.
GsTick ==
    /\ gsClock < MaxClock
    /\ gsClock' = gsClock + 1
    /\ UNCHANGED <<exceptSheets, gsheet, gsData, gsRet, gsOutcome>>

\* store_news_data(spreadsheet_id, news_data, source) returns.
GsStore(news_data) ==
    /\ gsheet' = SheetsStore(gsheet, news_data, gsClock).sheet
    /\ gsRet' = SheetsStore(gsheet, news_data, gsClock).ret
    /\ gsData' = news_data
    /\ gsOutcome' = "returned"
    /\ UNCHANGED <<exceptSheets, gsClock>>

\* store_news_data raises: the sheet exists but could not be read, so that
\* adding it fails, or the append request fails after a missing sheet was
\* added with its header row.
GsStoreRaises(news_data) ==
    /\ gsheet' = [gsheet EXCEPT !.exists = TRUE]
    /\ gsData' = news_data
    /\ gsOutcome' = "raised"
    /\ UNCHANGED <<exceptSheets, gsClock, gsRet>>

GsStoreNewsData == \E news_data \in SheetBatches : GsStore(news_data) \/ GsStoreRaises(news_data)

NextSheets == GsTick \/ GsStoreNewsData

SpecSheets == InitSheets /\ [][NextSheets]_vars

\* ------------------------------------ two runs against the same source
\* The two runs (two processes of scrape_all_sources, or of a per-source
\* command) that store a batch for the same source.
Runs == {1, 2}

\* The dataset the runs find: nothing, or what a store of one article left.
InitRace ==
    /\ InitLocal /\ IdleOrder /\ s3Latest = Absent /\ IdleS3 /\ IdleMega
    /\ sdkNodes = <<>> /\ IdleSdk
    /\ IdleRun /\ IdleFetch /\ IdleFilter /\ IdleAuth /\ IdleExport /\ IdleSheets
    /\ raceFile \in {StoreResultLocal(Absent, d, 0) : d \in {b \in Batches : Len(b) <= 1}}
    /\ raceBatch \in [Runs -> Batches]
    /\ racePc = [r \in Runs |-> "idle"]
    /\ raceExisting = [r \in Runs |-> None]
    /\ overlapped = FALSE

\* store_news_data of run r with an empty batch: return 0 at once.
RaceEmpty(r) ==
    /\ racePc[r] = "idle"
    /\ raceBatch[r] = <<>>
    /\ racePc' = [racePc EXCEPT ![r] = "done"]
    /\ UNCHANGED <<exceptRace, raceFile, raceBatch, raceExisting, overlapped>>

\* Run r loads the existing dataset (os.path.exists and pd.read_csv, or
\* _download_csv_from_s3): existing_df is what the dataset holds now.  No lock
\* is taken.
RaceRead(r) ==
    /\ racePc[r] = "idle"
    /\ raceBatch[r] # <<>>
    /\ raceExisting' = [raceExisting EXCEPT ![r] = LoadExistingLocal(raceFile)]
    /\ racePc' = [racePc EXCEPT ![r] = "merged"]
    /\ overlapped' = (overlapped \/ \E o \in Runs \ {r} : racePc[o] = "merged")
    /\ UNCHANGED <<exceptRace, raceFile, raceBatch>>

\* Run r writes combined_df, merged from the existing_df it has loaded, over
\* the dataset (to_csv, or _upload_csv_to_s3), and returns.
RaceWrite_Mutant(r) ==
    /\ racePc[r] = "merged"
    /\ raceFile' = CsvFile(to_csv(DataFrame(raceBatch[r], 1)))
    /\ racePc' = [racePc EXCEPT ![r] = "done"]
    /\ UNCHANGED <<exceptRace, raceBatch, raceExisting, overlapped>>
RaceWrite(r) ==
    /\ racePc[r] = "merged"
    /\ raceFile' = CsvFile(to_csv(MergeCsv(raceExisting[r], DataFrame(raceBatch[r], 1))))
    /\ racePc' = [racePc EXCEPT ![r] = "done"]
    /\ UNCHANGED <<exceptRace, raceBatch, raceExisting, overlapped>>

NextRace == \E r \in Runs : RaceEmpty(r) \/ RaceRead(r) \/ RaceWrite(r)

SpecRace == InitRace /\ [][NextRace]_vars

\* ------------------------------------------------------------------ claims
RowUrls(rows) == {rows[i].url : i \in 1..Len(rows)}
BatchUrls(data) == {data[i].url : i \in 1..Len(data)}
NoDuplicateUrls(rows) == \A i, j \in 1..Len(rows) : i # j => rows[i].url # rows[j].url

\* The (url, title) pairs a stored file holds.
Content(f) == {<<f.rows[i].url, f.rows[i].title>> : i \in 1..Len(f.rows)}

\* The title of the last article of the batch that has the url.
LastTitle(data, u) ==
    LET last == CHOOSE i \in 1..Len(data) :
                    /\ data[i].url = u
                    /\ \A j \in (i + 1)..Len(data) : data[j].url # u
    IN  data[last].title

\* Some call of store_news_data returns in this step.
StoreReturns == (StoreEmpty \/ StoreNewsData) /\ outcome' = "returned"

\* C1: the persisted latest dataset of a source never holds two records with
\* the same url, also after a first store and when the batch repeats a url.
C1_UniqueUrls == file.st = "ok" => NoDuplicateUrls(file.rows)

\* C2: the count store_news_data returns is the number of net-new records:
\* the urls of the batch that the existing dataset did not hold, each once.
C2_ReturnsNetNew ==
    [][StoreReturns => ret' = Cardinality(BatchUrls(lastData') \ RowUrls(file.rows))]_vars

\* C3: storing a batch and then the same batch again leaves the urls and the
\* title held for each url as they were, and the second store returns 0.
C3_Idempotent ==
    [][(outcome = "returned" /\ lastData # <<>> /\ StoreOk(lastData))
        => (Content(file') = Content(file) /\ ret' = 0)]_vars

\* C4: after a store the dataset holds, for every url of the batch, exactly
\* one record, and it carries the title of the last article of the batch
\* that has the url.
C4_IncomingWins ==
    (outcome = "returned" /\ lastData # <<>>) =>
        \A u \in BatchUrls(lastData) :
            /\ Cardinality({i \in 1..Len(file.rows) : file.rows[i].url = u}) = 1
            /\ \A i \in 1..Len(file.rows) :
                    file.rows[i].url = u => file.rows[i].title = LastTitle(lastData, u)

SheetUrls(sheet) == {sheet.rows[i].url : i \in 1..Len(sheet.rows)}

\* C5: the set of urls present after storing b1 and then b2 equals the set
\* present after storing b2 and then b1, whatever dataset the source had.
C5_OrderIndependentUrls ==
    stored = 2 =>
        /\ RowUrls(laneA.rows) = RowUrls(laneB.rows)
        /\ laneA.st = laneB.st
        /\ SheetUrls(sheetA) = SheetUrls(sheetB)

\* Both orders were run on a dataset that held a url of neither batch, with
\* batches that overlap in one url and differ in another.
C5_Witness ==
    /\ stored = 2
    /\ BatchUrls(b1) # BatchUrls(b2)
    /\ BatchUrls(b1) \cap BatchUrls(b2) # {}
    /\ laneA.st = "ok"
    /\ laneA.rows # laneB.rows
    /\ RowUrls(laneA.rows) = BatchUrls(b1) \cup BatchUrls(b2)
    /\ SheetUrls(sheetA) = BatchUrls(b1) \cup BatchUrls(b2)

\* C6: while every write of the call has failed with a transient error, the
\* put of the latest dataset has been attempted at most max_attempts (3)
\* times in the call.
C6_WriteAttemptsBounded ==
    (~putsOk /\ onlyTransient) => latestPuts <= UploadMaxAttempts

\* C7: after a failure classified Unauthenticated or Corrupt no attempt
\* follows: the download and upload wrappers make no further attempt and
\* the wrapper of store_news_data does not run the body again.
C7_OnlyTransientRetried ==
    lastErr \in {"Unauthenticated", "Corrupt"} => pc \in {"fallback", "idle"}

\* C8: when the write of the latest dataset has failed in every attempt, the
\* fallback is invoked at most once in the call, and once it has been invoked
\* no further attempt is made: the call is over.
C8_FallbackOnceAtTheEnd ==
    (failedAt = "upload_latest" /\ fallbacks >= 1) => (fallbacks = 1 /\ pc = "idle")

\* C9: when the call has raised because the put of the latest dataset failed
\* in every attempt (and the local fallback write itself went through), the
\* fallback file holds every record of the merged dataset that was to be
\* written.
C9_FallbackHoldsAttemptedWrite ==
    (pc = "idle" /\ outcome = "raised" /\ failedAt = "upload_latest" /\ fallbackWrote) =>
        Content(CsvFile(to_csv(S3Combined))) \subseteq Content(s3Backup)

\* C10: a call that returns normally has written the merged dataset to the
\* primary backend: a failed primary write is never reported as a success.
C10_ReturnMeansWritten ==
    (outcome = "returned" /\ lastData # <<>>) => uploaded

\* The call began with one node of the name, and it held a valid dataset.
SdkPreValid == Len(sdkPre) = 1 /\ sdkPre[1].st = "ok"

\* C11: a call whose read of the existing dataset failed never replaces a
\* valid dataset with one that lacks previously stored records: when such a
\* call has returned, every url the dataset held is still held.
C11_ReadFailureLosesNothing ==
    (sdkPc = "idle" /\ outcome = "returned" /\ lastData # <<>> /\ sdkReadFailed /\ SdkPreValid) =>
        /\ sdkNodes # <<>>
        /\ \A i \in 1..Len(sdkNodes) : RowUrls(sdkPre[1].rows) \subseteq RowUrls(sdkNodes[i].rows)

\* C14: when the process is terminated during a call that began with a valid
\* dataset and has read it, the backend holds the dataset as it was before the
\* call or the merged dataset of the call, and nothing else.
C14_InterruptLeavesPreOrPost ==
    (sdkPc = "terminated" /\ SdkPreValid /\ ~sdkReadFailed) =>
        \/ sdkNodes = sdkPre
        \/ sdkNodes = <<CsvFile(to_csv(SdkCombined))>>

\* C12: a corrupt existing dataset does not block ingestion: no call fails
\* because the payload it downloaded could not be parsed.
C12_CorruptDoesNotBlock ==
    ~(pc = "idle" /\ outcome = "raised" /\ failedAt = "download" /\ lastErr = "Corrupt")

\* C13: a download that finds the key absent yields None, and the absent key
\* by itself causes no retry, no exception and no fallback; the dataset then
\* written is exactly the incoming batch.
C13_AbsentKeyIsFirstRun ==
    /\ (pc = "upload_latest" /\ s3Latest.st = "absent") => ~existing.found
    /\ (pc # "idle" /\ s3Latest.st = "absent" /\ lastErr \notin RequestErrors) =>
            /\ pc \in {"download", "upload_latest"}
            /\ storeAttempt = 0 /\ ioAttempt = 0 /\ fallbacks = 0
    /\ (pc \in {"upload_history", "idle"} /\ outcome \in {"running", "returned"}
            /\ lastData # <<>> /\ ~existing.found) =>
            s3Latest = CsvFile(to_csv(S3Frame))

\* A first call on an empty bucket met no error and has returned: the latest
\* object is the batch as it came, a repeated url included.
C13_Witness ==
    /\ pc = "idle" /\ outcome = "returned"
    /\ lastData = <<A1, A1>>
    /\ ~existing.found
    /\ lastErr = "none" /\ storeAttempt = 0 /\ fallbacks = 0
    /\ s3Latest = CsvFile(to_csv(S3Frame))

\* C15: a scraper whose job was marked 'failed' is counted in total_failed
\* and reported as failed, never counted or reported as a success.
C15_FailedRunNotSuccess ==
    \A s \in Sources :
        (s < srcIdx /\ jobRows[s].status = "failed") =>
            (s \in failedMsgs /\ s \notin successMsgs)

\* C16: the scrapers are run one after the other in list order, each at most
\* once; when the run is over every scraper has been run, whatever the ones
\* before it did, and total_success + total_failed is their number.
C16_EverySourceOnce ==
    /\ \A i \in 1..Len(ran) : ran[i] = i
    /\ total_success = Cardinality(successMsgs)
    /\ total_failed = Cardinality(failedMsgs)
    /\ runPc = "done" =>
            /\ Len(ran) = Len(scrapers)
            /\ total_success + total_failed = Len(scrapers)
            /\ successMsgs \cup failedMsgs = Sources

\* The first command raised, the second returned, and the run went on to
\* its end.
C16_Witness ==
    /\ runPc = "done"
    /\ handleEnd[1] = "raised"
    /\ handleEnd[2] = "returned"
    /\ total_failed >= 1 /\ total_success >= 1

\* C17: when a handle that created its job has returned, the job row is
\* 'completed' with the count the scrape returned, or 'failed' with the text
\* of the exception; completed_at is set in both cases.
C17_JobEndsTerminal ==
    \A s \in Sources :
        handleEnd[s] = "returned" =>
            /\ jobRows[s].completed_at
            /\ \/ jobRows[s].status = "completed" /\ jobRows[s].articles_scraped = scraped[s]
               \/ jobRows[s].status = "failed" /\ jobRows[s].error_message \in Exceptions

\* One handle has returned with its job completed, another with its job
\* failed after the save of the completed job raised.
C17_Witness ==
    \E s, t \in Sources :
        /\ handleEnd[s] = "returned" /\ jobRows[s].status = "completed"
        /\ jobRows[s].articles_scraped = MaxScraped
        /\ handleEnd[t] = "returned" /\ jobRows[t].status = "failed"
        /\ scraped[t] >= 0

\* C18: with max_pages = 5 and a non-200 response for page 2, a scraper
\* returns having gathered exactly the posts of page 1 and having requested
\* no page beyond page 2.
C18_StopsAtFailedPage ==
    (fetchPc = "done" /\ max_pages = 5 /\ responses[2] = "status"
        /\ responses[1] \in {"none", "posts"}) =>
        /\ gathered = PagePosts(1)
        /\ \A i \in 1..Len(requested) : requested[i] <= 2

\* The date a row carries: the text of its date column, or of scraped_at
\* when it has no date column.
RowDate(row) == IF row.has_date THEN row.date ELSE row.scraped_at

\* The text names a day in one of the two layouts.
Parses(c) == c.fmt \in {FmtDate, FmtDateTime} /\ ValidDate(c.m, c.d)

\* The row's date parses and lies within the bounds that are given.
WithinBounds(row) ==
    /\ Parses(RowDate(row))
    /\ Truthy(date_from) => DayNo(date_from.m, date_from.d) <= DayNo(RowDate(row).m, RowDate(row).d)
    /\ Truthy(date_to) => DayNo(RowDate(row).m, RowDate(row).d) <= DayNo(date_to.m, date_to.d)

\* C19: with date_from and/or date_to given (as dates), the filter keeps
\* exactly the rows whose date parses and lies within the inclusive bounds;
\* a row whose date does not parse is left out.
C19_DateFilterExact ==
    (/\ filterPc = "done"
     /\ Truthy(date_from) \/ Truthy(date_to)
     /\ Truthy(date_from) => Parses(date_from) /\ date_from.fmt = FmtDate
     /\ Truthy(date_to) => Parses(date_to) /\ date_to.fmt = FmtDate) =>
        filtered_articles = SelectSeq(all_articles, WithinBounds)

\* The credentials the service looks up are not all there.
CredentialsAbsent ==
    IF service = "S3StorageService"
    THEN Falsy(getenv("AWS_ACCESS_KEY_ID")) \/ Falsy(getenv("AWS_SECRET_ACCESS_KEY"))
    ELSE Falsy(getenv("MEGA_EMAIL")) \/ Falsy(getenv("MEGA_PASSWORD"))

\* C20: constructing a storage service without credentials raises after at
\* most one authentication attempt: it is neither retried nor does the
\* constructor return an object that works without credentials.
C20_NoCredentialsFailFast ==
    (service # "none" /\ AuthAtRest /\ CredentialsAbsent) =>
        authPc = "raised" /\ attempt_number <= 1

\* The row the export is to hold for a record: its url, and its content cut
\* to the limit.
ExportedRow(rec) ==
    [url |-> rec.url,
     content |-> IF rec.content.type = "str" THEN Truncate(rec.content) ELSE Text(0)]

\* C21: an export of filtered records ends with a response that holds the
\* header row in the fixed column order and one row per filtered record, in
\* filter order, the content cut to the limit.
C21_ExportOneRowPerRecord ==
    (exportPc \in {"returned", "redirected"} /\ exportArticles # <<>>) =>
        /\ exportPc = "returned"
        /\ response.header = ExportHeader
        /\ response.rows = [i \in 1..Len(exportArticles) |-> ExportedRow(exportArticles[i])]

\* The items of the batch the sheet is to take: the url, white space
\* stripped, is not empty, is in no row of the sheet and is the url of no
\* earlier item of the batch.
FreshItems(sheet, data) ==
    {i \in 1..Len(data) :
        /\ strip(data[i].url) # ""
        /\ \A k \in 1..Len(sheet.rows) : strip(sheet.rows[k].url) # strip(data[i].url)
        /\ \A k \in 1..(i - 1) : strip(data[k].url) # strip(data[i].url)}

\* The k-th item of a set of items, in the order of the batch.
KthItem(items, k) == CHOOSE i \in items : Cardinality({j \in items : j < i}) = k - 1

\* rows is the rows of old followed by one row per fresh item of the batch,
\* in the order of the batch, stamped with the time of the call.
AppendsFresh(old, rows, data, now) ==
    LET fresh == FreshItems(old, data)
        n == Len(rows) - Len(old.rows)
    IN  /\ n = Cardinality(fresh)
        /\ SubSeq(rows, 1, Len(old.rows)) = old.rows
        /\ \A k \in 1..n :
                rows[Len(old.rows) + k] = [title |-> data[KthItem(fresh, k)].title,
                                           url |-> strip(data[KthItem(fresh, k)].url),
                                           scraped_at |-> now]

GavePosts(i) == extract_posts_from_page(fSource, requested[i], responses[requested[i]]) # <<>>

\* C23: within a category the pages are requested in increasing order
\* without gaps, at most max_pages of them, and none after the first page
\* that gave another status, gave no post or raised; the handle ends only
\* after the page loop of its last category, whatever loops were broken.
C23_PagesInOrderEveryCategory ==
    /\ \A i \in 1..Len(requested) : requested[i] = FirstPage(fSource) + i - 1
    /\ Len(requested) <= max_pages
    /\ \A i \in 1..(Len(requested) - 1) : GavePosts(i)
    /\ fetchPc \in {"loop", "done"} => category \in 1..NumCategories(fSource)
    /\ fetchPc = "ended" => category = NumCategories(fSource)
    /\ broken \subseteq 1..category

\* The page loop of the first category was left with break at its second
\* page; the loop of the next category has run through all its pages and the
\* handle has ended.
C23_Witness ==
    /\ fetchPc = "ended"
    /\ broken = {1}
    /\ category = 2
    /\ max_pages >= 3
    /\ Len(requested) = max_pages

\* C24: a post whose article gave no body is handed on with empty content,
\* and a page whose posts all gave no body does not end the page loop as a
\* page without posts does.
C24_EmptyBodyIsEmitted ==
    \A i \in 1..Len(requested) :
        responses[requested[i]] = "bodiless" =>
            /\ \E k \in 1..Len(gathered) : gathered[k] = [url |-> requested[i], content |-> ""]
            /\ ~(fetchPc = "done" /\ i = Len(requested) /\ category \in broken)

\* The Article rows created during the run.
CreatedInRun == {p \in Pages : articleDb[p].exists /\ articleDb[p].scraped_at = 1}

\* C29: no step of a scrape command changes an Article row that exists, and
\* the articles_scraped a handle records at its end is the number of rows
\* created during the run.
C29_FirstStoredKeptAndCounted ==
    /\ [](fetchPc = "ended" => articles_scraped = Cardinality(CreatedInRun))
    /\ [][\A p \in Pages : articleDb[p].exists => articleDb'[p] = articleDb[p]]_vars

\* A run of scrape_moneycontrol met a post whose url had a row, left the row
\* as it was, and created rows for other posts.
C29_Witness ==
    /\ fetchPc = "ended"
    /\ scrapers[fSource] = "scrape_moneycontrol"
    /\ articleDb[1] = OldArticle
    /\ articles_scraped >= 1
    /\ articles_scraped < max_pages

\* C25: a call of store_news_data that returns leaves every stored record
\* whose url is not in the batch in the file as it was, scraped_at included,
\* and every other record of the file it leaves is a record of the batch
\* stamped with the time of the call.
C25_OtherRecordsUntouched ==
    [][(clock' = clock /\ outcome' = "returned") =>
            /\ \A i \in 1..Len(file.rows) :
                    file.rows[i].url \notin BatchUrls(lastData') =>
                        \E j \in 1..Len(file'.rows) : file'.rows[j] = file.rows[i]
            /\ \A j \in 1..Len(file'.rows) :
                    \/ \E i \in 1..Len(file.rows) : file.rows[i] = file'.rows[j]
                    \/ /\ file'.rows[j].url \in BatchUrls(lastData')
                       /\ file'.rows[j].scraped_at = clock]_vars

\* C26: the upload of the merged dataset leaves in the latest object the urls
\* it held together with the urls of the batch, no other step of a call
\* changes the urls of the latest object, and a call returns only with the
\* urls of its batch in it: the urls of the latest object are the urls of all
\* the batches stored, none is ever removed.
C26_UrlsAccumulate ==
    [][/\ IF pc = "upload_latest" /\ pc' = "upload_history"
          THEN RowUrls(s3Latest'.rows) = RowUrls(s3Latest.rows) \cup BatchUrls(lastData)
          ELSE RowUrls(s3Latest'.rows) = RowUrls(s3Latest.rows)
       /\ (pc = "upload_history" /\ outcome' = "returned") =>
                BatchUrls(lastData) \subseteq RowUrls(s3Latest'.rows)]_vars

\* A call has returned that stored one url over a latest object holding the
\* other: the object holds both.
C26_Witness ==
    /\ pc = "idle"
    /\ outcome = "returned"
    /\ Len(lastData) = 1
    /\ s3Latest.st = "ok"
    /\ RowUrls(s3Latest.rows) = {A1.url, A2.url}

\* The same for SimpleFileStorageService, under Spec, as long as the stored
\* file can be read.
LocalUrlsAccumulate ==
    [][(file.st # "corrupt" /\ file'.st # "corrupt") =>
            /\ RowUrls(file.rows) \subseteq RowUrls(file'.rows)
            /\ (clock' = clock /\ outcome' = "returned") =>
                    RowUrls(file'.rows) = RowUrls(file.rows) \cup BatchUrls(lastData')]_vars

\* Both runs have returned.
BothDone == \A r \in Runs : racePc[r] = "done"

\* C27: when neither run loaded the dataset between the other's load and
\* write, the dataset both have left holds the urls of both batches; the state
\* in which the runs overlapped and the urls of one of them are missing is
\* reachable (C27_Witness).
C27_SerializedKeepsBoth ==
    (BothDone /\ ~overlapped) =>
        \A r \in Runs : BatchUrls(raceBatch[r]) \subseteq RowUrls(raceFile.rows)

\* Lost update: the runs overlapped, both have returned, and the dataset
\* lacks a url of the batch of one of them.
C27_Witness ==
    /\ BothDone
    /\ overlapped
    /\ \E r \in Runs : ~(BatchUrls(raceBatch[r]) \subseteq RowUrls(raceFile.rows))

\* C28: when S3StorageService.store_news_data has raised to its caller, the
\* latest object is as the call found it.
C28_RaiseLeavesLatest ==
    (pc = "idle" /\ outcome = "raised") => s3Latest = s3Pre

\* C30: a call of S3StorageService.store_news_data with an empty batch
\* returns 0 at once: it starts no download, makes no put, runs no fallback,
\* and the latest object, the history object and the fallback file are as
\* they were.
C30_EmptyBatchTouchesNothing ==
    [][(pc = "idle" /\ lastData' = <<>>) =>
            /\ outcome' = "returned"
            /\ ret' = 0
            /\ pc' = "idle"
            /\ UNCHANGED <<s3Latest, s3History, s3Backup, latestPuts, fallbacks, file>>]_vars

\* An empty batch was handed over after a batch had been stored: the objects
\* of that store are still there.
C30_Witness ==
    /\ pc = "idle"
    /\ outcome = "returned"
    /\ lastData = <<>>
    /\ ret = 0
    /\ s3Latest.st = "ok"
    /\ s3History.st = "ok"
    /\ s3History.rows # <<>>

\* The same for SimpleFileStorageService, under Spec.
LocalEmptyBatchTouchesNothing ==
    [][(clock' = clock /\ lastData' = <<>>) =>
            (outcome' = "returned" /\ ret' = 0 /\ file' = file)]_vars

====
